---- MODULE Spec2Model ----
(***************************************************************************)
(* A model of the arduous Arduboy emulator (jmaroeder/arduous).            *)
(*                                                                         *)
(* The first part models the SSD1306 display controller of                 *)
(* arduous/src/ssd1306.rs: its registers, the command buffer, the pixel    *)
(* RAM, push_command / dispatch_command with every register setter,       *)
(* push_data with the three addressing modes, and the readout iter().      *)
(*                                                                         *)
(* Representation.                                                         *)
(*  - The SSD1306 struct is the record held by the variable display; its   *)
(*    fields keep the names of the struct's fields.                        *)
(*  - vram (a bit array of DISPLAY_PIXELS bits) is the set of the indices   *)
(*    whose bit is 1.                                                      *)
(*  - An element of command_buffer (a BitArr of 8 bits, Lsb0) is a         *)
(*    function 0..7 -> BOOLEAN; load() turns a range of its bits back into  *)
(*    a number.                                                            *)
(*  - A Rust panic is the value of the variable panic after the call: the  *)
(*    record keeps the state the object had when the panic unwound.  A     *)
(*    caller that catches the unwind may go on calling the object.          *)
(*  - u8 additions that overflow panic when the build checks overflow      *)
(*    (the dev profile) and wrap otherwise (the release profile); the     *)
(*    profile is the variable overflow_checks, fixed by Init.               *)
(*                                                                         *)
(* The second part models the Arduboy of arduous/src/arduboy.rs, which     *)
(* owns the display, and the third the ATmega32u4 of                       *)
(* arduous/src/atmega32u4.rs: its registers, SRAM, PC, SP and status       *)
(* register (the variable cpu) and the do_OPCODE methods.                  *)
(*  - sram (an array of SRAM_SIZE bytes, zero at construction) is the      *)
(*    function from the indices of its non-zero bytes to their values.     *)
(*  - program_memory and eeprom are read and written by no method and are  *)
(*    left out.                                                            *)
(***************************************************************************)
EXTENDS Integers, Sequences, FiniteSets, TLC

VARIABLES
    display,          \* the SSD1306 struct
    panic,            \* outcome of the last call: "none" or the panic's message
    overflow_checks,  \* build profile: TRUE when u8 overflow panics
    call,             \* the last call made by the host: [op, byte]
    dispatched,       \* the opcode the last call dispatched, or NotDispatched
    prev_dispatched,  \* the same of the call before the last one
    nops,             \* number of calls made so far
    run,              \* number of push_data calls since the last push_command
    run_start,        \* the cursor [col, page] when that run of data began
    test_inited,      \* Arduboy.test_inited
    button_state,     \* Arduboy.button_state: the set of buttons held down
    cpu,              \* the ATmega32u4 struct
    ret,              \* what the last call returned (NoReturn when it did not)
    chain             \* the multi-byte compare in progress: [len, equal]

vars == <<display, panic, overflow_checks, call, dispatched, prev_dispatched, nops, run, run_start, test_inited, button_state, cpu, ret, chain>>

\* the variables of the Arduboy and of the CPU, which the display's own
\* methods leave alone
machine == <<test_inited, button_state, cpu, ret, chain>>

\* the variables that observe the display's command stream
stream == <<dispatched, prev_dispatched, run, run_start>>

----------------------------------------------------------------------------
(* Program constants                                                       *)

DISPLAY_WIDTH == 128
DISPLAY_HEIGHT == 64
DISPLAY_PIXELS == DISPLAY_WIDTH * DISPLAY_HEIGHT
PAGE_SIZE == 8

Byte == 0..255

AddressingMode == {"Horizontal", "Vertical", "Page"}

----------------------------------------------------------------------------
(* Bit views of a byte (bitvec, Lsb0 order)                                *)

Pow2(n) == 2 ^ n

\* BitArray::new([data; 1]) / BitSlice::from_element(&data): bit i of data at index i
from_element(data) == [i \in 0..7 |-> ((data \div Pow2(i)) % 2) = 1]

\* bits[lo..hi].load::<u8>(): the bits lo .. hi-1, the lowest index least significant
RECURSIVE load(_, _, _)
load(bits, lo, hi) ==
    IF lo >= hi THEN 0
    ELSE (IF bits[lo] THEN 1 ELSE 0) + 2 * load(bits, lo + 1, hi)

----------------------------------------------------------------------------
(* Results of a call: the object afterwards and the panic, if any          *)

NoPanic == "none"

Ok(s) == [self |-> s, panic |-> NoPanic]

Panic(s, msg) == [self |-> s, panic |-> msg]

----------------------------------------------------------------------------
(* impl Default for SSD1306                                                *)

Default ==
    [ alternative_com |-> TRUE,
      com_remap |-> FALSE,
      ignore_ram |-> FALSE,
      inverted |-> FALSE,
      segment_remap |-> FALSE,
      sleeping |-> FALSE,
      addressing_mode |-> "Page",
      col |-> 0,
      column_end |-> 127,
      column_start |-> 0,
      contrast |-> 127,
      display_start_line |-> 0,
      divide_ratio |-> 1,
      multiplex_ratio |-> 64,
      oscillator_frequency |-> 8,
      page_end |-> 7,
      page_mode_column_start |-> 0,
      page_mode_page_start |-> 0,
      page_start |-> 0,
      page |-> 0,
      precharge_period |-> 34,
      vcomh_deselect_level |-> 32,
      vertical_shift |-> 0,
      command_buffer |-> << >>,
      vram |-> {} ]

----------------------------------------------------------------------------
(* iter(): the readout                                                     *)

\* the filter iter() selects, applied to one VRAM bit b
filter(s, b) ==
    IF s.sleeping THEN FALSE
    ELSE IF s.ignore_ram THEN TRUE
    ELSE IF s.inverted THEN ~b
    ELSE b

\* iter() of a display whose last row is missing (mutant of iter)
iter_OneRowShort(s) ==
    [k \in 0..(DISPLAY_PIXELS - DISPLAY_WIDTH - 1) |-> filter(s, k \in s.vram)]

\* mutation of iter: inversion is tested before ignore_ram
iter_InvertedFirst(s) ==
    [k \in 0..(DISPLAY_PIXELS - 1) |->
        IF s.sleeping THEN FALSE
        ELSE IF s.inverted THEN ~(k \in s.vram)
        ELSE IF s.ignore_ram THEN TRUE
        ELSE k \in s.vram]

\* self.vram.iter().by_val().map(filter): the k-th item is the filtered bit k
iter(s) == [k \in 0..(DISPLAY_PIXELS - 1) |-> filter(s, k \in s.vram)]

----------------------------------------------------------------------------
(* push_data                                                               *)

\* self.vram.set(y * DISPLAY_WIDTH + x, value); BitSlice::set panics when the
\* index is not below the length
set_pixel(s, x, y, value) ==
    LET index == y * DISPLAY_WIDTH + x
    IN IF index >= DISPLAY_PIXELS
       THEN Panic(s, "index out of bounds")
       ELSE Ok([s EXCEPT !.vram = IF value THEN @ \cup {index} ELSE @ \ {index}])

\* the loop `for i in 0..8 { self.set_pixel(col, y - i, data[i]) }` from step i on
RECURSIVE write_column(_, _, _, _)
write_column(s, bits, y, i) ==
    IF i >= 8 THEN Ok(s)
    ELSE LET r == set_pixel(s, s.col, y - i, bits[i])
         IN IF r.panic # NoPanic THEN r
            ELSE write_column(r.self, bits, y, i + 1)

\* `x += 1` on a u8
AddOne(x, oc) ==
    IF x + 1 > 255
    THEN [value |-> 0, overflow |-> oc]
    ELSE [value |-> x + 1, overflow |-> FALSE]

Overflow == "attempt to add with overflow"

\* AddressingMode::Page arm
advance_page(s, oc) ==
    LET c == AddOne(s.col, oc)
    IN IF c.overflow THEN Panic(s, Overflow)
       ELSE IF c.value >= DISPLAY_WIDTH
            THEN Ok([s EXCEPT !.col = s.page_mode_column_start])
            ELSE Ok([s EXCEPT !.col = c.value])

\* AddressingMode::Horizontal arm
advance_horizontal(s, oc) ==
    LET c == AddOne(s.col, oc)
    IN IF c.overflow THEN Panic(s, Overflow)
       ELSE IF c.value > s.column_end
            THEN LET s1 == [s EXCEPT !.col = s.column_start]
                     p == AddOne(s1.page, oc)
                 IN IF p.overflow THEN Panic(s1, Overflow)
                    ELSE IF p.value > s1.page_end
                         THEN Ok([s1 EXCEPT !.page = s1.page_start])
                         ELSE Ok([s1 EXCEPT !.page = p.value])
            ELSE Ok([s EXCEPT !.col = c.value])

\* AddressingMode::Vertical arm
advance_vertical(s, oc) ==
    LET p == AddOne(s.page, oc)
    IN IF p.overflow THEN Panic(s, Overflow)
       ELSE IF p.value > s.page_end
            THEN LET s1 == [s EXCEPT !.page = s.page_start]
                     c == AddOne(s1.col, oc)
                 IN IF c.overflow THEN Panic(s1, Overflow)
                    ELSE IF c.value > s1.column_end
                         THEN Ok([s1 EXCEPT !.col = s1.column_start])
                         ELSE Ok([s1 EXCEPT !.col = c.value])
            ELSE Ok([s EXCEPT !.page = p.value])

\* pub fn push_data(&mut self, data: u8); oc is the build's overflow checking
push_data(s, data, oc) ==
    LET bits == from_element(data)
        y == ((s.page + 1) * PAGE_SIZE) - 1
        w == write_column(s, bits, y, 0)
    IN IF w.panic # NoPanic THEN w
       ELSE CASE w.self.addressing_mode = "Page" -> advance_page(w.self, oc)
              [] w.self.addressing_mode = "Horizontal" -> advance_horizontal(w.self, oc)
              [] w.self.addressing_mode = "Vertical" -> advance_vertical(w.self, oc)

----------------------------------------------------------------------------
(* Command setters; buf is self.command_buffer when dispatch_command runs   *)

set_contrast_control(s) ==
    Ok([s EXCEPT !.contrast = load(s.command_buffer[2], 0, 8)])

entire_display_on(s) ==
    Ok([s EXCEPT !.ignore_ram = s.command_buffer[1][0]])

set_normal_inverse_display(s) ==
    Ok([s EXCEPT !.inverted = s.command_buffer[1][0]])

\* mutation of set_display_on_off: the bit is stored without the negation
set_display_on_off_NotNegated(s) ==
    Ok([s EXCEPT !.sleeping = s.command_buffer[1][0]])

set_display_on_off(s) ==
    Ok([s EXCEPT !.sleeping = ~s.command_buffer[1][0]])

\* x & mask for the two nibble masks the setters use
HighNibble(x) == (x \div 16) * 16
LowNibble(x) == x % 16

set_lower_column_start_address_for_paging_address_mode(s) ==
    LET start == HighNibble(s.page_mode_column_start)
                 + load(s.command_buffer[1], 0, 4)
    IN Ok([s EXCEPT !.page_mode_column_start = start, !.col = start])

set_higher_column_start_address_for_paging_address_mode(s) ==
    Ok([s EXCEPT !.page_mode_column_start =
            LowNibble(@) + load(s.command_buffer[1], 0, 4) * 16])

\* mutation of set_memory_addressing_mode: 0b11 selects Page instead of panicking
set_memory_addressing_mode_NoPanic(s) ==
    LET m == load(s.command_buffer[2], 0, 2)
    IN CASE m = 0 -> Ok([s EXCEPT !.addressing_mode = "Horizontal"])
         [] m = 1 -> Ok([s EXCEPT !.addressing_mode = "Vertical"])
         [] OTHER -> Ok([s EXCEPT !.addressing_mode = "Page"])

set_memory_addressing_mode(s) ==
    LET m == load(s.command_buffer[2], 0, 2)
    IN CASE m = 0 -> Ok([s EXCEPT !.addressing_mode = "Horizontal"])
         [] m = 1 -> Ok([s EXCEPT !.addressing_mode = "Vertical"])
         [] m = 2 -> Ok([s EXCEPT !.addressing_mode = "Page"])
         [] OTHER -> Panic(s, "Unknown addressing mode")

set_column_address(s) ==
    LET start == load(s.command_buffer[2], 0, 7)
    IN Ok([s EXCEPT !.column_start = start,
                    !.column_end = load(s.command_buffer[3], 0, 7),
                    !.col = start])

set_page_address(s) ==
    LET start == load(s.command_buffer[2], 0, 3)
    IN Ok([s EXCEPT !.page_start = start,
                    !.page_end = load(s.command_buffer[3], 0, 3),
                    !.page = start])

set_page_start_address_for_page_addressing_mode(s) ==
    LET start == load(s.command_buffer[1], 0, 3)
    IN Ok([s EXCEPT !.page_mode_page_start = start, !.page = start])

set_display_start_line(s) ==
    Ok([s EXCEPT !.display_start_line = load(s.command_buffer[1], 0, 6)])

set_segment_remap(s) ==
    Ok([s EXCEPT !.segment_remap = s.command_buffer[1][0]])

\* mutation of set_multiplex_ratio: the lower limit is off by one (14 accepted)
set_multiplex_ratio_LowerLimit(s) ==
    LET a == load(s.command_buffer[2], 0, 6)
    IN IF a >= 14 /\ a <= 63
       THEN Ok([s EXCEPT !.multiplex_ratio = a + 1])
       ELSE Panic(s, "Invalid multiplex ratio")

set_multiplex_ratio(s) ==
    LET a == load(s.command_buffer[2], 0, 6)
    IN IF a >= 15 /\ a <= 63
       THEN Ok([s EXCEPT !.multiplex_ratio = a + 1])
       ELSE Panic(s, "Invalid multiplex ratio")

set_com_output_scan_direction(s) ==
    Ok([s EXCEPT !.com_remap = s.command_buffer[1][3]])

set_display_offset(s) ==
    Ok([s EXCEPT !.vertical_shift = load(s.command_buffer[2], 0, 6)])

set_com_pins_hardware_configuration(s) ==
    Ok([s EXCEPT !.alternative_com = s.command_buffer[2][4],
                 !.com_remap = s.command_buffer[2][5]])

set_display_clock_divide_ratio(s) ==
    Ok([s EXCEPT !.divide_ratio = load(s.command_buffer[2], 0, 4) + 1,
                 !.oscillator_frequency = load(s.command_buffer[2], 4, 8)])

set_precharge_period(s) ==
    IF load(s.command_buffer[2], 0, 4) = 0 \/ load(s.command_buffer[2], 4, 8) = 0
    THEN Panic(s, "Invalid pre-charge period")
    ELSE Ok([s EXCEPT !.precharge_period = load(s.command_buffer[2], 0, 8)])

set_vcomh_deselect_level(s) ==
    Ok([s EXCEPT !.vcomh_deselect_level = load(s.command_buffer[2], 4, 7)])

nop(s) == Ok(s)

----------------------------------------------------------------------------
(* push_command, command_length, dispatch_command                          *)
(* Sequences are 1-based: command_buffer[0] of the source is                *)
(* command_buffer[1] here.                                                  *)

\* fn command_length(&self) -> usize, by the buffer's first byte
command_length(s) ==
    LET first == load(s.command_buffer[1], 0, 8)
    IN CASE first = 129 -> 2                  \* 0x81 Set Contrast Control
         [] first \in {38, 39} -> 7           \* 0x26 | 0x27
         [] first \in {41, 42} -> 6           \* 0x29 | 0x2A
         [] first = 163 -> 3                  \* 0xa3
         [] first = 32 -> 2                   \* 0x20
         [] first = 33 -> 3                   \* 0x21
         [] first = 34 -> 3                   \* 0x22
         [] first = 168 -> 2                  \* 0xa8
         [] first = 211 -> 2                  \* 0xd3
         [] first = 218 -> 2                  \* 0xda
         [] first = 213 -> 2                  \* 0xd5
         [] first = 217 -> 2                  \* 0xd9
         [] first = 219 -> 2                  \* 0xdb
         [] OTHER -> 1

\* fn dispatch_command(&mut self)
dispatch_command(s) ==
    LET command == load(s.command_buffer[1], 0, 8)
    IN CASE command = 129 -> set_contrast_control(s)
         [] command \in {164, 165} -> entire_display_on(s)            \* 0xa4 | 0xa5
         [] command \in {166, 167} -> set_normal_inverse_display(s)   \* 0xa6 | 0xa7
         [] command \in {174, 175} -> set_display_on_off(s)           \* 0xae | 0xaf
         [] command \in {38, 39, 41, 42, 46, 47, 163} -> Ok(s)        \* scrolling: logged only
         [] command \in 0..15 ->
                set_lower_column_start_address_for_paging_address_mode(s)
         [] command \in 16..31 ->
                set_higher_column_start_address_for_paging_address_mode(s)
         [] command = 32 -> set_memory_addressing_mode(s)
         [] command = 33 -> set_column_address(s)
         [] command = 34 -> set_page_address(s)
         [] command \in 176..183 ->                                   \* 0xb0..=0xb7
                set_page_start_address_for_page_addressing_mode(s)
         [] command \in 64..127 -> set_display_start_line(s)          \* 0x40..=0x7f
         [] command \in {160, 161} -> set_segment_remap(s)            \* 0xa0 | 0xa1
         [] command = 168 -> set_multiplex_ratio(s)                   \* 0xa8
         [] command \in {192, 200} -> set_com_output_scan_direction(s) \* 0xc0 | 0xc8
         [] command = 211 -> set_display_offset(s)                    \* 0xd3
         [] command = 218 -> set_com_pins_hardware_configuration(s)   \* 0xda
         [] command = 213 -> set_display_clock_divide_ratio(s)        \* 0xd5
         [] command = 217 -> set_precharge_period(s)                  \* 0xd9
         [] command = 219 -> set_vcomh_deselect_level(s)              \* 0xdb
         [] command = 227 -> nop(s)                                   \* 0xe3
         [] OTHER -> Panic(s, "Unknown display command")

\* dispatch_command did not run in the call
NotDispatched == -1

\* pub fn push_command(&mut self, data: u8); the result also tells which opcode
\* the call handed to dispatch_command, if it did
push_command(s, data) ==
    LET s1 == [s EXCEPT !.command_buffer = Append(@, from_element(data))]
    IN IF Len(s1.command_buffer) = command_length(s1)
       THEN LET r == dispatch_command(s1)
                opcode == load(s1.command_buffer[1], 0, 8)
            IN IF r.panic # NoPanic
               THEN [self |-> r.self, panic |-> r.panic, dispatched |-> opcode]
               ELSE [self |-> [r.self EXCEPT !.command_buffer = << >>],
                     panic |-> NoPanic, dispatched |-> opcode]
       ELSE [self |-> s1, panic |-> NoPanic, dispatched |-> NotDispatched]

----------------------------------------------------------------------------
(* ATmega32u4: data memory layout                                          *)

REGISTER_START == 0

REGISTER_SIZE == 32

REGISTER_END == REGISTER_START + REGISTER_SIZE - 1

REGISTER_W_INDEX == 24

IO_REGISTER_START == 32

IO_REGISTER_SIZE == 64

IO_REGISTER_END == IO_REGISTER_START + IO_REGISTER_SIZE - 1

EXT_IO_REGISTER_START == 96

EXT_IO_REGISTER_SIZE == 160

EXT_IO_REGISTER_END == EXT_IO_REGISTER_START + EXT_IO_REGISTER_SIZE - 1

SRAM_START == 256

SRAM_SIZE == 2560

SRAM_END == SRAM_START + SRAM_SIZE - 1

\* u16
Word == 0..65535

\* i8
SignedByte == -128..127

----------------------------------------------------------------------------
(* ATmega32u4: the struct, and what a method returns                       *)

\* view_bits::<Lsb0>()[i] of an integer
Bit(x, i) == (x \div Pow2(i)) % 2 = 1

\* a & b and a | b on u8
BitAnd(a, b) ==
    LET f[i \in 0..8] ==
            IF i = 8 THEN 0
            ELSE (IF Bit(a, i) /\ Bit(b, i) THEN Pow2(i) ELSE 0) + f[i + 1]
    IN f[0]

BitOr(a, b) ==
    LET f[i \in 0..8] ==
            IF i = 8 THEN 0
            ELSE (IF Bit(a, i) \/ Bit(b, i) THEN Pow2(i) ELSE 0) + f[i + 1]
    IN f[0]

StatusRegister == [i : BOOLEAN, t : BOOLEAN, h : BOOLEAN, s : BOOLEAN,
                   v : BOOLEAN, n : BOOLEAN, z : BOOLEAN, c : BOOLEAN]

\* StatusRegister::from_u8
from_u8(value) ==
    [ i |-> Bit(value, 7), t |-> Bit(value, 6), h |-> Bit(value, 5),
      s |-> Bit(value, 4), v |-> Bit(value, 3), n |-> Bit(value, 2),
      z |-> Bit(value, 1), c |-> Bit(value, 0) ]

\* to_u8 with N and V in each other's place (mutant of to_u8)
to_u8_SwappedNV(status) ==
    128 * (IF status.i THEN 1 ELSE 0) + 64 * (IF status.t THEN 1 ELSE 0)
    + 32 * (IF status.h THEN 1 ELSE 0) + 16 * (IF status.s THEN 1 ELSE 0)
    + 8 * (IF status.n THEN 1 ELSE 0) + 4 * (IF status.v THEN 1 ELSE 0)
    + 2 * (IF status.z THEN 1 ELSE 0) + (IF status.c THEN 1 ELSE 0)

\* StatusRegister::to_u8: the flags shifted to their bits and or-ed
to_u8(status) ==
    128 * (IF status.i THEN 1 ELSE 0) + 64 * (IF status.t THEN 1 ELSE 0)
    + 32 * (IF status.h THEN 1 ELSE 0) + 16 * (IF status.s THEN 1 ELSE 0)
    + 8 * (IF status.v THEN 1 ELSE 0) + 4 * (IF status.n THEN 1 ELSE 0)
    + 2 * (IF status.z THEN 1 ELSE 0) + (IF status.c THEN 1 ELSE 0)

\* impl IndexMut<u8> for StatusRegister, and the store through it
index_mut(status, s, value) ==
    CASE s = 7 -> [status EXCEPT !.i = value]
      [] s = 6 -> [status EXCEPT !.t = value]
      [] s = 5 -> [status EXCEPT !.h = value]
      [] s = 4 -> [status EXCEPT !.s = value]
      [] s = 3 -> [status EXCEPT !.v = value]
      [] s = 2 -> [status EXCEPT !.n = value]
      [] s = 1 -> [status EXCEPT !.z = value]
      [] s = 0 -> [status EXCEPT !.c = value]

\* impl Index<u8> for StatusRegister; an index above 7 is unreachable!()
index(status, s) ==
    CASE s = 7 -> status.i
      [] s = 6 -> status.t
      [] s = 5 -> status.h
      [] s = 4 -> status.s
      [] s = 3 -> status.v
      [] s = 2 -> status.n
      [] s = 1 -> status.z
      [] s = 0 -> status.c

\* a CPU whose registers, SRAM, PC, SP and flags are all zero
Zeroed ==
    [ regs |-> [r \in 0..(REGISTER_SIZE - 1) |-> 0],
      sram |-> << >>,
      pc |-> 0,
      sp |-> 0,
      status |-> from_u8(0) ]

\* Sram: self.0[i] for an index inside the array
sram_at(s, i) == IF i \in DOMAIN s.sram THEN s.sram[i] ELSE 0

\* Sram: self.0[i] = value for an index inside the array
sram_put(s, i, value) ==
    LET keep == (DOMAIN s.sram) \ {i}
        dom == IF value = 0 THEN keep ELSE keep \cup {i}
    IN [s EXCEPT !.sram = [j \in dom |-> IF j = i THEN value ELSE s.sram[j]]]

NoReturn == -1

OutOfBounds == "index out of bounds"

Unreachable == "internal error: entered unreachable code"

SubOverflow == "attempt to subtract with overflow"

\* a method returned `value` and left the CPU as s
Return(s, value) == [self |-> s, panic |-> NoPanic, ret |-> value]

\* a method panicked and left the CPU as s
Unwind(s, msg) == [self |-> s, panic |-> msg, ret |-> NoReturn]

\* x + y on u16: the wrapped sum, and whether the build panics on it
AddU16(x, y, oc) ==
    [value |-> (x + y) % 65536, overflow |-> oc /\ x + y > 65535]

\* x - y on u16
SubU16(x, y, oc) ==
    [value |-> (x - y + 65536) % 65536, overflow |-> oc /\ x < y]

\* u8::overflowing_add and u8::overflowing_sub: <<result, carry>>
overflowing_add(a, b) == <<(a + b) % 256, a + b > 255>>

overflowing_sub(a, b) == <<(a - b + 256) % 256, a < b>>

\* bool as u8
as_u8(b) == IF b THEN 1 ELSE 0

\* the closing `self.pc += 1; cycles` of the opcodes
advance_pc(s, cycles, oc) ==
    LET p == AddU16(s.pc, 1, oc)
    IN IF p.overflow THEN Unwind(s, Overflow)
       ELSE Return([s EXCEPT !.pc = p.value], cycles)

----------------------------------------------------------------------------
(* ATmega32u4: register pairs and data space                               *)

\* GeneralRegisters::pair: u16::from_le_bytes(self.0[index..index + 2])
pair(s, idx) == s.regs[idx] + 256 * s.regs[idx + 1]

\* set_pair that stores the high byte first (mutant of set_pair)
set_pair_BigEndian(s, idx, value) ==
    [s EXCEPT !.regs = [s.regs EXCEPT ![idx] = value \div 256,
                                      ![idx + 1] = value % 256]]

\* GeneralRegisters::set_pair
set_pair(s, idx, value) ==
    [s EXCEPT !.regs = [s.regs EXCEPT ![idx] = value % 256,
                                      ![idx + 1] = value \div 256]]

\* GeneralRegisters::w, x, y, z (here regs_w .. regs_z, as the one-letter
\* names are taken by bound variables) and set_w, set_x, set_y, set_z
REGISTER_X_INDEX == 26

REGISTER_Y_INDEX == 28

REGISTER_Z_INDEX == 30

regs_w(s) == pair(s, REGISTER_W_INDEX)

set_w(s, value) == set_pair(s, REGISTER_W_INDEX, value)

regs_x(s) == pair(s, REGISTER_X_INDEX)

set_x(s, value) == set_pair(s, REGISTER_X_INDEX, value)

regs_y(s) == pair(s, REGISTER_Y_INDEX)

set_y(s, value) == set_pair(s, REGISTER_Y_INDEX, value)

regs_z(s) == pair(s, REGISTER_Z_INDEX)

set_z(s, value) == set_pair(s, REGISTER_Z_INDEX, value)

\* Sram::set_pair: the two indexed stores, each panicking outside the array
sram_set_pair(s, idx, value) ==
    IF idx >= SRAM_SIZE THEN Unwind(s, OutOfBounds)
    ELSE LET s1 == sram_put(s, idx, value % 256)
         IN IF idx + 1 >= SRAM_SIZE THEN Unwind(s1, OutOfBounds)
            ELSE Return(sram_put(s1, idx + 1, value \div 256), 0)

\* data_load: [value, panic]
data_load(s, addr) ==
    IF addr >= REGISTER_START /\ addr <= REGISTER_SIZE
    THEN IF addr - REGISTER_START >= REGISTER_SIZE
         THEN [value |-> 0, panic |-> OutOfBounds]
         ELSE [value |-> s.regs[addr - REGISTER_START], panic |-> NoPanic]
    ELSE IF addr >= IO_REGISTER_START /\ addr <= IO_REGISTER_END
    THEN [value |-> 0, panic |-> NoPanic]
    ELSE IF addr >= SRAM_START /\ addr <= SRAM_END
    THEN [value |-> sram_at(s, addr - SRAM_START), panic |-> NoPanic]
    ELSE [value |-> 0, panic |-> Unreachable]

\* data_store
data_store(s, addr, value) ==
    IF addr >= REGISTER_START /\ addr <= REGISTER_SIZE
    THEN IF addr - REGISTER_START >= REGISTER_SIZE
         THEN Unwind(s, OutOfBounds)
         ELSE Return([s EXCEPT !.regs[addr - REGISTER_START] = value], 0)
    ELSE IF addr >= IO_REGISTER_START /\ addr <= IO_REGISTER_END
    THEN Return(s, 0)
    ELSE IF addr >= SRAM_START /\ addr <= SRAM_END
    THEN Return(sram_put(s, addr - SRAM_START, value), 0)
    ELSE Unwind(s, Unreachable)

----------------------------------------------------------------------------
(* ATmega32u4: the opcodes                                                 *)

helper_add_status_flags(s, d, r, c, result) ==
    LET v == (Bit(r, 7) = Bit(d, 7)) /\ (Bit(r, 7) # Bit(result, 7))
        n == Bit(result, 7)
    IN [s EXCEPT !.status.z = (result = 0),
                 !.status.v = v,
                 !.status.n = n,
                 !.status.s = (n # v),
                 !.status.h = \/ Bit(d, 3) /\ Bit(r, 3)
                              \/ Bit(r, 3) /\ ~Bit(result, 3)
                              \/ ~Bit(result, 3) /\ Bit(d, 3)]

\* ADC that adds no carry in (mutant of do_adc)
do_adc_NoCarryIn(s, rd, rr, oc) ==
    LET a0 == overflowing_add(s.regs[rd], s.regs[rr])
        s1 == helper_add_status_flags(s, s.regs[rd], s.regs[rr], a0[2], a0[1])
        s2 == [s1 EXCEPT !.status.c = a0[2]]
        s3 == [s2 EXCEPT !.regs[rd] = a0[1]]
    IN advance_pc(s3, 1, oc)

\* 5. ADC Rd,Rr
do_adc(s, rd, rr, oc) ==
    LET a0 == overflowing_add(s.regs[rd], s.regs[rr])
        a1 == overflowing_add(a0[1], as_u8(s.status.c))
        result == a1[1]
        c == a0[2] \/ a1[2]
        s1 == helper_add_status_flags(s, s.regs[rd], s.regs[rr], c, result)
        s2 == [s1 EXCEPT !.status.c = c]
        s3 == [s2 EXCEPT !.regs[rd] = result]
    IN advance_pc(s3, 1, oc)

\* 6. ADD Rd,Rr: the helper reads the registers after Rd was written
do_add(s, rd, rr, oc) ==
    LET a == overflowing_add(s.regs[rd], s.regs[rr])
        result == a[1]
        c == a[2]
        s1 == [s EXCEPT !.regs[rd] = result]
        s2 == helper_add_status_flags(s1, s1.regs[rd], s1.regs[rr], c, result)
        s3 == [s2 EXCEPT !.status.c = c]
    IN advance_pc(s3, 1, oc)

\* ADIW that never sets V (mutant of do_adiw)
do_adiw_NoOverflowFlag(s, rd, k, oc) ==
    LET d == pair(s, rd)
        result == (d + k) % 65536
        s1 == set_pair(s, rd, result)
        n == Bit(result, 15)
        s2 == [s1 EXCEPT !.status.z = (result = 0),
                         !.status.v = FALSE,
                         !.status.n = n,
                         !.status.s = n,
                         !.status.c = (d + k > 65535)]
    IN advance_pc(s2, 2, oc)

\* 7. ADIW Rd+1:Rd,K
do_adiw(s, rd, k, oc) ==
    LET d == pair(s, rd)
        result == (d + k) % 65536
        c == d + k > 65535
        s1 == set_pair(s, rd, result)
        v == ~Bit(d, 15) /\ Bit(result, 15)
        n == Bit(result, 15)
        s2 == [s1 EXCEPT !.status.z = (result = 0),
                         !.status.v = v,
                         !.status.n = n,
                         !.status.s = (n # v),
                         !.status.c = c]
    IN advance_pc(s2, 2, oc)

\* 8. AND Rd,Rr: the result is not written to Rd
do_and(s, rd, rr, oc) ==
    LET result == BitAnd(s.regs[rd], s.regs[rr])
        n == Bit(result, 7)
        s1 == [s EXCEPT !.status.v = FALSE,
                        !.status.n = n,
                        !.status.s = (n # FALSE),
                        !.status.z = (result = 0)]
    IN advance_pc(s1, 1, oc)

\* 9. ANDI Rd,K
do_andi(s, rd, k, oc) ==
    LET result == BitAnd(s.regs[rd], k)
        n == Bit(result, 7)
        s1 == [s EXCEPT !.status.v = FALSE,
                        !.status.n = n,
                        !.status.s = (n # FALSE),
                        !.status.z = (result = 0),
                        !.regs[rd] = result]
    IN advance_pc(s1, 1, oc)

\* 10. ASR Rd: S is set from the V of before, then V is set
do_asr(s, rd, oc) ==
    LET result == BitOr(s.regs[rd], BitAnd(s.regs[rd], 128))
        n == Bit(result, 7)
        c == Bit(s.regs[rd], 0)
        s1 == [s EXCEPT !.status.n = n,
                        !.status.c = c,
                        !.status.s = (n # s.status.v),
                        !.status.v = (n # c),
                        !.status.z = (result = 0),
                        !.regs[rd] = result]
    IN advance_pc(s1, 1, oc)

\* 11. BCLR s
do_bclr(s, b, oc) ==
    advance_pc([s EXCEPT !.status = index_mut(s.status, b, FALSE)], 1, oc)

\* 34. BSET s
do_bset(s, b, oc) ==
    advance_pc([s EXCEPT !.status = index_mut(s.status, b, TRUE)], 1, oc)

\* 13. BRBC s,k and 14. BRBS s,k: `self.pc += (k + 1) as u16` when taken
branch(s, k, oc) ==
    IF k + 1 > 127 /\ oc THEN Unwind(s, Overflow)
    ELSE LET k1 == IF k + 1 > 127 THEN k + 1 - 256 ELSE k + 1
             offset == IF k1 < 0 THEN k1 + 65536 ELSE k1
             p == AddU16(s.pc, offset, oc)
         IN IF p.overflow THEN Unwind(s, Overflow)
            ELSE Return([s EXCEPT !.pc = p.value], 2)

do_brbc(s, k, b, oc) ==
    IF ~index(s.status, b) THEN branch(s, k, oc) ELSE advance_pc(s, 1, oc)

do_brbs(s, k, b, oc) ==
    IF index(s.status, b) THEN branch(s, k, oc) ELSE advance_pc(s, 1, oc)

\* push_u16
push_u16(s, value, oc) ==
    LET i == SubU16(s.sp, 1, oc)
    IN IF i.overflow THEN Unwind(s, SubOverflow)
       ELSE LET w == sram_set_pair(s, i.value, value)
                q == SubU16(s.sp, 2, oc)
            IN IF w.panic # NoPanic THEN w
               ELSE IF q.overflow THEN Unwind(w.self, SubOverflow)
               ELSE Return([w.self EXCEPT !.sp = q.value], 0)

\* 36. CALL k
do_call(s, k, oc) ==
    LET a == AddU16(s.pc, 2, oc)
    IN IF a.overflow THEN Unwind(s, Overflow)
       ELSE LET w == push_u16(s, a.value, oc)
            IN IF w.panic # NoPanic THEN w
               ELSE Return([w.self EXCEPT !.pc = k], 5)

\* 37. CBI A,b
do_cbi(s, a, b, oc) ==
    LET l == data_load(s, IO_REGISTER_START + a)
    IN IF l.panic # NoPanic THEN Unwind(s, l.panic)
       ELSE LET cleared == IF Bit(l.value, b) THEN l.value - Pow2(b) ELSE l.value
                w == data_store(s, IO_REGISTER_START + a, cleared)
            IN IF w.panic # NoPanic THEN w
               ELSE advance_pc(w.self, 2, oc)

\* 48. COM Rd
do_com(s, rd, oc) ==
    LET result == overflowing_sub(255, s.regs[rd])[1]
        n == Bit(result, 7)
        s1 == [s EXCEPT !.status.n = n,
                        !.status.c = TRUE,
                        !.status.v = FALSE,
                        !.status.s = (n # FALSE),
                        !.status.z = (result = 0),
                        !.regs[rd] = result]
    IN advance_pc(s1, 1, oc)

\* the compare flags with the half carry of an addition (mutant of
\* helper_cp_status_flags)
helper_cp_status_flags_AddHalfCarry(s, d, r, result) ==
    LET v == \/ Bit(d, 7) /\ ~Bit(r, 7) /\ ~Bit(result, 7)
             \/ ~Bit(d, 7) /\ Bit(r, 7) /\ Bit(result, 7)
        n == Bit(result, 7)
    IN [s EXCEPT !.status.h = \/ Bit(d, 3) /\ Bit(r, 3)
                              \/ Bit(r, 3) /\ ~Bit(result, 3)
                              \/ ~Bit(result, 3) /\ Bit(d, 3),
                 !.status.v = v,
                 !.status.n = n,
                 !.status.s = (n # v)]

helper_cp_status_flags(s, d, r, result) ==
    LET v == \/ Bit(d, 7) /\ ~Bit(r, 7) /\ ~Bit(result, 7)
             \/ ~Bit(d, 7) /\ Bit(r, 7) /\ Bit(result, 7)
        n == Bit(result, 7)
    IN [s EXCEPT !.status.h = \/ ~Bit(d, 3) /\ Bit(r, 3)
                              \/ Bit(r, 3) /\ Bit(result, 3)
                              \/ Bit(result, 3) /\ ~Bit(d, 3),
                 !.status.v = v,
                 !.status.n = n,
                 !.status.s = (n # v)]

\* 49. CP Rd,Rr
do_cp(s, rd, rr, oc) ==
    LET a == overflowing_sub(s.regs[rd], s.regs[rr])
        s1 == helper_cp_status_flags(s, s.regs[rd], s.regs[rr], a[1])
        s2 == [s1 EXCEPT !.status.z = (a[1] = 0), !.status.c = a[2]]
    IN advance_pc(s2, 1, oc)

\* CPC that sets Z from its own result alone, as CP does (mutant of do_cpc)
do_cpc_ZFromResult(s, rd, rr, oc) ==
    LET a0 == overflowing_sub(s.regs[rd], s.regs[rr])
        a1 == overflowing_sub(a0[1], as_u8(s.status.c))
        s1 == helper_cp_status_flags(s, s.regs[rd], s.regs[rr], a1[1])
        s2 == [s1 EXCEPT !.status.z = (a1[1] = 0), !.status.c = a0[2] \/ a1[2]]
    IN advance_pc(s2, 1, oc)

\* 50. CPC Rd,Rr
do_cpc(s, rd, rr, oc) ==
    LET a0 == overflowing_sub(s.regs[rd], s.regs[rr])
        a1 == overflowing_sub(a0[1], as_u8(s.status.c))
        result == a1[1]
        s1 == helper_cp_status_flags(s, s.regs[rd], s.regs[rr], result)
        s2 == IF result # 0 THEN [s1 EXCEPT !.status.z = FALSE] ELSE s1
        s3 == [s2 EXCEPT !.status.c = a0[2] \/ a1[2]]
    IN advance_pc(s3, 1, oc)

\* 51. CPI Rd,K
do_cpi(s, rd, k, oc) ==
    LET a == overflowing_sub(s.regs[rd], k)
        s1 == helper_cp_status_flags(s, s.regs[rd], k, a[1])
        s2 == [s1 EXCEPT !.status.z = (a[1] = 0), !.status.c = a[2]]
    IN advance_pc(s2, 1, oc)

----------------------------------------------------------------------------
(* Arduboy (arduboy.rs)                                                    *)

TEST_COMMANDS == <<32, 0>>

TEST_DATA == <<1, 3, 7, 15, 31, 63, 127, 255>>

Buttons == {"A", "B", "Up", "Down", "Left", "Right"}

\* for command in TEST_COMMANDS.iter() { self.display.push_command(*command) }
RECURSIVE push_commands(_, _)
push_commands(r, seq) ==
    IF seq = << >> \/ r.panic # NoPanic THEN r
    ELSE LET n == push_command(r.self, Head(seq))
         IN push_commands([self |-> n.self, panic |-> n.panic], Tail(seq))

\* for data in TEST_DATA.iter() { self.display.push_data(*data) }
RECURSIVE push_datas(_, _, _)
push_datas(r, seq, oc) ==
    IF seq = << >> \/ r.panic # NoPanic THEN r
    ELSE push_datas(push_data(r.self, Head(seq), oc), Tail(seq), oc)

\* the Ok(()) that execute and execute_for_a_frame return
OkUnit == 0

\* Arduboy::execute on the Arduboy [display, test_inited]; it returns Ok(())
execute(a, oc) ==
    LET c == IF ~a.test_inited THEN push_commands(Ok(a.display), TEST_COMMANDS)
             ELSE Ok(a.display)
        inited == a.test_inited \/ c.panic = NoPanic
        d == push_datas(c, TEST_DATA, oc)
    IN [self |-> [display |-> d.self, test_inited |-> inited],
        panic |-> d.panic,
        ret |-> IF d.panic = NoPanic THEN OkUnit ELSE NoReturn]

\* Arduboy::execute_for_a_frame: self.execute()?; Ok(())
execute_for_a_frame(a, oc) == execute(a, oc)

\* Arduboy::display_iter
display_iter(a) == iter(a.display)

\* Arduboy::set_button on the set of buttons held down
set_button(held, button, state) ==
    IF state THEN held \cup {button} ELSE held \ {button}

\* no multi-byte compare is in progress
NoChain == [len |-> 0, equal |-> TRUE]

----------------------------------------------------------------------------
(* The host: it calls push_command and push_data with bytes of its choice  *)

MaxOps == 3

\* command bytes the host sends: opcodes and parameters of the addressing,
\* multiplex and column start commands, valid and invalid
CommandBytes == {0, 1, 2, 3, 6, 10, 14, 15, 24, 31, 32, 63, 79, 168, 183}

DataBytes == {1, 255}

Init ==
    /\ display = Default
    /\ panic = NoPanic
    /\ overflow_checks \in BOOLEAN
    /\ call = [op |-> "new", byte |-> 0]
    /\ dispatched = NotDispatched
    /\ prev_dispatched = NotDispatched
    /\ nops = 0
    /\ run = 0
    /\ run_start = [col |-> Default.col, page |-> Default.page]
    /\ test_inited = FALSE
    /\ button_state = {}
    /\ cpu = Zeroed
    /\ ret = NoReturn
    /\ chain = NoChain

PushCommand(byte) ==
    LET r == push_command(display, byte)
    IN /\ display' = r.self
       /\ panic' = r.panic
       /\ call' = [op |-> "push_command", byte |-> byte]
       /\ dispatched' = r.dispatched
       /\ prev_dispatched' = dispatched
       /\ nops' = nops + 1
       /\ run' = 0
       /\ run_start' = [col |-> r.self.col, page |-> r.self.page]
       /\ UNCHANGED overflow_checks
       /\ UNCHANGED machine

PushData(byte) ==
    LET r == push_data(display, byte, overflow_checks)
    IN /\ display' = r.self
       /\ panic' = r.panic
       /\ call' = [op |-> "push_data", byte |-> byte]
       /\ dispatched' = NotDispatched
       /\ prev_dispatched' = dispatched
       /\ nops' = nops + 1
       /\ run' = run + 1
       /\ UNCHANGED run_start
       /\ UNCHANGED overflow_checks
       /\ UNCHANGED machine

Next ==
    \/ nops < MaxOps /\ \E byte \in CommandBytes : PushCommand(byte)
    \/ nops < MaxOps /\ \E byte \in DataBytes : PushData(byte)

Spec == Init /\ [][Next]_vars

\* A host that moves the cursor about: the column start commands 0x00, 0x01
\* and 0x18, the page start command 0xB7 and the addressing mode command 0x20
\* with the parameters 0x00 and 0x01, and data.
MaxCursorOps == 6

CursorBytes == {0, 1, 24, 32, 183}

FillBytes == {255}

NextCursor ==
    \/ nops < MaxCursorOps /\ \E byte \in CursorBytes : PushCommand(byte)
    \/ nops < MaxCursorOps /\ \E byte \in FillBytes : PushData(byte)

SpecCursor == Init /\ [][NextCursor]_vars

\* A host that switches the display modes: 0xA4/0xA5 (entire display on),
\* 0xA6/0xA7 (normal/inverse), 0xAE/0xAF (display off/on), and data.
MaxModeOps == 3

ModeBytes == {164, 165, 166, 167, 174, 175}

NextMode ==
    \/ nops < MaxModeOps /\ \E byte \in ModeBytes : PushCommand(byte)
    \/ nops < MaxModeOps /\ \E byte \in DataBytes : PushData(byte)

SpecMode == Init /\ [][NextMode]_vars

\* Hosts that configure the display and then stream data without a further
\* command.  The first sets the page-mode column and page starts (0x12, 0x18,
\* 0xB3, 0xB7) and fills more than one page width; the second programs a window
\* of up to two columns by two pages with 0x21, 0x22 and 0x20 and fills it.
MaxPageCommands == 2

MaxPageRun == 130

PageBytes == {18, 24, 179, 183}

NextPageRun ==
    \/ run = 0 /\ nops < MaxPageCommands /\ \E byte \in PageBytes : PushCommand(byte)
    \/ run < MaxPageRun /\ \E byte \in FillBytes : PushData(byte)

SpecPageRun == Init /\ [][NextPageRun]_vars

MaxWindowCommands == 8

MaxWindowRun == 5

WindowBytes == {0, 1, 32, 33, 34}

NextWindow ==
    \/ run = 0 /\ nops < MaxWindowCommands /\ \E byte \in WindowBytes : PushCommand(byte)
    \/ run < MaxWindowRun /\ \E byte \in FillBytes : PushData(byte)

SpecWindow == Init /\ [][NextWindow]_vars

\* A frontend that runs frames on a fresh Arduboy and sets its buttons.
MaxFrames == 3

ExecuteForAFrame ==
    LET r == execute_for_a_frame([display |-> display, test_inited |-> test_inited],
                                 overflow_checks)
    IN /\ display' = r.self.display
       /\ test_inited' = r.self.test_inited
       /\ panic' = r.panic
       /\ ret' = r.ret
       /\ call' = [op |-> "execute_for_a_frame", byte |-> 0]
       /\ nops' = nops + 1
       /\ UNCHANGED <<overflow_checks, button_state, cpu, chain, stream>>

SetButton(button, state) ==
    /\ button_state' = set_button(button_state, button, state)
    /\ panic' = NoPanic
    /\ ret' = NoReturn
    /\ call' = [op |-> "set_button", byte |-> 0]
    /\ UNCHANGED <<display, test_inited, overflow_checks, nops, cpu, chain, stream>>

NextArduboy ==
    \/ nops < MaxFrames /\ ExecuteForAFrame
    \/ nops < MaxFrames /\ \E button \in Buttons, state \in BOOLEAN : SetButton(button, state)

SpecArduboy == Init /\ [][NextArduboy]_vars

----------------------------------------------------------------------------
(* Programs: they execute opcodes on the CPU                               *)

\* the display and the Arduboy as constructed, untouched by the opcodes
Untouched ==
    /\ display = Default
    /\ call = [op |-> "new", args |-> << >>]
    /\ dispatched = NotDispatched
    /\ prev_dispatched = NotDispatched
    /\ run = 0
    /\ run_start = [col |-> Default.col, page |-> Default.page]
    /\ test_inited = FALSE
    /\ button_state = {}
    /\ panic = NoPanic
    /\ ret = NoReturn
    /\ nops = 0

\* the opcode `op` was executed with the operands `args` and ended as r
Execute(op, args, r) ==
    /\ cpu' = r.self
    /\ panic' = r.panic
    /\ ret' = r.ret
    /\ call' = [op |-> op, args |-> args]
    /\ nops' = nops + 1
    /\ UNCHANGED <<display, test_inited, button_state, overflow_checks, stream>>

Adc(rd, rr) ==
    Execute("do_adc", <<rd, rr>>, do_adc(cpu, rd, rr, overflow_checks)) /\ chain' = NoChain

Add(rd, rr) ==
    Execute("do_add", <<rd, rr>>, do_add(cpu, rd, rr, overflow_checks)) /\ chain' = NoChain

Adiw(rd, k) ==
    Execute("do_adiw", <<rd, k>>, do_adiw(cpu, rd, k, overflow_checks)) /\ chain' = NoChain

And(rd, rr) ==
    Execute("do_and", <<rd, rr>>, do_and(cpu, rd, rr, overflow_checks)) /\ chain' = NoChain

Andi(rd, k) ==
    Execute("do_andi", <<rd, k>>, do_andi(cpu, rd, k, overflow_checks)) /\ chain' = NoChain

Asr(rd) ==
    Execute("do_asr", <<rd>>, do_asr(cpu, rd, overflow_checks)) /\ chain' = NoChain

Com(rd) ==
    Execute("do_com", <<rd>>, do_com(cpu, rd, overflow_checks)) /\ chain' = NoChain

\* CP opens a multi-byte compare, each CPC that follows extends it
Cp(rd, rr) ==
    /\ Execute("do_cp", <<rd, rr>>, do_cp(cpu, rd, rr, overflow_checks))
    /\ chain' = [len |-> 1, equal |-> cpu.regs[rd] = cpu.regs[rr]]

Cpc(rd, rr) ==
    /\ Execute("do_cpc", <<rd, rr>>, do_cpc(cpu, rd, rr, overflow_checks))
    /\ chain' = IF chain.len = 0 THEN NoChain
                 ELSE [len |-> chain.len + 1,
                       equal |-> chain.equal /\ cpu.regs[rd] = cpu.regs[rr]]

Cpi(rd, k) ==
    Execute("do_cpi", <<rd, k>>, do_cpi(cpu, rd, k, overflow_checks)) /\ chain' = NoChain

Brbc(k, s) ==
    Execute("do_brbc", <<k, s>>, do_brbc(cpu, k, s, overflow_checks)) /\ chain' = NoChain

Brbs(k, s) ==
    Execute("do_brbs", <<k, s>>, do_brbs(cpu, k, s, overflow_checks)) /\ chain' = NoChain

Call(k) ==
    Execute("do_call", <<k>>, do_call(cpu, k, overflow_checks)) /\ chain' = NoChain

Cbi(a, b) ==
    Execute("do_cbi", <<a, b>>, do_cbi(cpu, a, b, overflow_checks)) /\ chain' = NoChain

DataLoad(addr) ==
    LET l == data_load(cpu, addr)
    IN /\ Execute("data_load", <<addr>>,
                  IF l.panic = NoPanic THEN Return(cpu, l.value) ELSE Unwind(cpu, l.panic))
       /\ chain' = NoChain

DataStore(addr, value) ==
    Execute("data_store", <<addr, value>>, data_store(cpu, addr, value)) /\ chain' = NoChain

\* Arithmetic and logic on r24 and r25 (the pair W), from operands at the
\* edges of the 8-bit range and from several settings of the flags.
MaxAluOps == 1

Operands == {0, 1, 15, 16, 127, 128, 255}

StatusValues == {0, 1, 2, 8, 9, 20, 255}

Immediates == {0, 1, 63}

AluRegisters == {REGISTER_W_INDEX, REGISTER_W_INDEX + 1}

InitAlu ==
    /\ Untouched
    /\ overflow_checks \in BOOLEAN
    /\ chain = NoChain
    /\ \E a \in Operands, b \in Operands, f \in StatusValues :
          cpu = [Zeroed EXCEPT !.regs[REGISTER_W_INDEX] = a,
                               !.regs[REGISTER_W_INDEX + 1] = b,
                               !.status = from_u8(f),
                               !.pc = 256]

NextAlu ==
    \/ nops < MaxAluOps /\ \E rd \in AluRegisters, rr \in AluRegisters : Adc(rd, rr)
    \/ nops < MaxAluOps /\ \E rd \in AluRegisters, rr \in AluRegisters : Add(rd, rr)
    \/ nops < MaxAluOps /\ \E k \in Immediates : Adiw(REGISTER_W_INDEX, k)
    \/ nops < MaxAluOps /\ \E rd \in AluRegisters, rr \in AluRegisters : And(rd, rr)
    \/ nops < MaxAluOps /\ \E rd \in AluRegisters, k \in Operands : Andi(rd, k)
    \/ nops < MaxAluOps /\ \E rd \in AluRegisters : Asr(rd)
    \/ nops < MaxAluOps /\ \E rd \in AluRegisters : Com(rd)
    \/ nops < MaxAluOps /\ \E rd \in AluRegisters, rr \in AluRegisters : Cp(rd, rr)
    \/ nops < MaxAluOps /\ \E rd \in AluRegisters, rr \in AluRegisters : Cpc(rd, rr)
    \/ nops < MaxAluOps /\ \E rd \in AluRegisters, k \in Operands : Cpi(rd, k)

SpecAlu == InitAlu /\ [][NextAlu]_vars

\* Multi-byte compares: CP and CPC on the bytes r0..r3 against r4..r7.
MaxCompareOps == 3

CompareBytes == {0, 1, 255}

CompareLeft == {0, 1}

CompareRight == {4, 5}

InitCompare ==
    /\ Untouched
    /\ overflow_checks \in BOOLEAN
    /\ chain = NoChain
    /\ \E a \in CompareBytes, b \in CompareBytes, c \in CompareBytes, z \in BOOLEAN :
          cpu = [Zeroed EXCEPT !.regs[0] = a, !.regs[4] = b, !.regs[5] = c,
                               !.status.z = z]

NextCompare ==
    \/ nops < MaxCompareOps /\ \E rd \in CompareLeft, rr \in CompareRight : Cp(rd, rr)
    \/ nops < MaxCompareOps /\ \E rd \in CompareLeft, rr \in CompareRight : Cpc(rd, rr)

SpecCompare == InitCompare /\ [][NextCompare]_vars

\* Conditional branches from several program counters on every flag.
MaxBranchOps == 1

Displacements == {-64, -2, -1, 0, 1, 63}

BranchStarts == {0, 1, 64, 1000, 65535}

InitBranch ==
    /\ Untouched
    /\ overflow_checks \in BOOLEAN
    /\ chain = NoChain
    /\ \E p \in BranchStarts, f \in {0, 85, 170, 255} :
          cpu = [Zeroed EXCEPT !.pc = p, !.status = from_u8(f)]

NextBranch ==
    \/ nops < MaxBranchOps /\ \E k \in Displacements, s \in 0..7 : Brbc(k, s)
    \/ nops < MaxBranchOps /\ \E k \in Displacements, s \in 0..7 : Brbs(k, s)

SpecBranch == InitBranch /\ [][NextBranch]_vars

\* Calls with the stack pointer at data addresses of the SRAM.
MaxCallOps == 2

StackPointers == {SRAM_START, SRAM_START + 2, SRAM_SIZE - 1, SRAM_SIZE, SRAM_END}

InitCall ==
    /\ Untouched
    /\ overflow_checks \in BOOLEAN
    /\ chain = NoChain
    /\ \E s \in StackPointers, p \in {0, 4660} :
          cpu = [Zeroed EXCEPT !.sp = s, !.pc = p]

NextCall ==
    nops < MaxCallOps /\ \E k \in {0, 1110, 16383} : Call(k)

SpecCall == InitCall /\ [][NextCall]_vars

\* Loads and stores over the data space, and CBI on the I/O registers.
MaxDataOps == 1

DataAddresses ==
    {REGISTER_START, REGISTER_END, IO_REGISTER_START, IO_REGISTER_START + 1,
     IO_REGISTER_END, EXT_IO_REGISTER_START, EXT_IO_REGISTER_END,
     SRAM_START, SRAM_END}

InitData ==
    /\ Untouched
    /\ overflow_checks \in BOOLEAN
    /\ chain = NoChain
    /\ \E a \in {0, 255}, b \in {0, 170} :
          cpu = sram_put(sram_put([Zeroed EXCEPT !.regs[REGISTER_END] = a], 0, b),
                         SRAM_SIZE - 1, b)

NextData ==
    \/ nops < MaxDataOps /\ \E a \in {0, 1, 31}, b \in {0, 7} : Cbi(a, b)
    \/ nops < MaxDataOps /\ \E addr \in DataAddresses : DataLoad(addr)
    \/ nops < MaxDataOps /\ \E addr \in DataAddresses, value \in {0, 85} : DataStore(addr, value)

SpecData == InitData /\ [][NextData]_vars

\* Flag instructions BSET and BCLR from every packed value of SREG.
MaxStatusOps == 1

Bclr(s) ==
    Execute("do_bclr", <<s>>, do_bclr(cpu, s, overflow_checks)) /\ chain' = NoChain

Bset(s) ==
    Execute("do_bset", <<s>>, do_bset(cpu, s, overflow_checks)) /\ chain' = NoChain

InitStatus ==
    /\ Untouched
    /\ overflow_checks \in BOOLEAN
    /\ chain = NoChain
    /\ \E b \in Byte : cpu = [Zeroed EXCEPT !.status = from_u8(b)]

NextStatus ==
    \/ nops < MaxStatusOps /\ \E s \in 0..7 : Bclr(s)
    \/ nops < MaxStatusOps /\ \E s \in 0..7 : Bset(s)

SpecStatus == InitStatus /\ [][NextStatus]_vars

\* Register pairs: writes and reads of pairs over a register file whose bytes
\* are all different, by index and through W, X, Y and Z.
MaxPairOps == 2

PairIndexes == {0, 1, 23, 24, 25, 30}

PairValues == {255, 4660, 65535}

PairNames == {"w", "x", "y", "z"}

SetPair(i, v) ==
    Execute("set_pair", <<i, v>>, Return(set_pair(cpu, i, v), NoReturn)) /\ chain' = NoChain

Pair(i) ==
    Execute("pair", <<i>>, Return(cpu, pair(cpu, i))) /\ chain' = NoChain

SetNamed(name, v) ==
    /\ Execute("set_" \o name, <<v>>,
               Return(CASE name = "w" -> set_w(cpu, v)
                        [] name = "x" -> set_x(cpu, v)
                        [] name = "y" -> set_y(cpu, v)
                        [] name = "z" -> set_z(cpu, v), NoReturn))
    /\ chain' = NoChain

Named(name) ==
    /\ Execute(name, << >>,
               Return(cpu, CASE name = "w" -> regs_w(cpu)
                             [] name = "x" -> regs_x(cpu)
                             [] name = "y" -> regs_y(cpu)
                             [] name = "z" -> regs_z(cpu)))
    /\ chain' = NoChain

InitPairs ==
    /\ Untouched
    /\ overflow_checks \in BOOLEAN
    /\ chain = NoChain
    /\ \E base \in {1, 100} :
          cpu = [Zeroed EXCEPT !.regs = [r \in 0..(REGISTER_SIZE - 1) |-> base + r]]

NextPairs ==
    \/ nops < MaxPairOps /\ \E i \in PairIndexes, v \in PairValues : SetPair(i, v)
    \/ nops < MaxPairOps /\ \E i \in PairIndexes : Pair(i)
    \/ nops < MaxPairOps /\ \E name \in PairNames, v \in PairValues : SetNamed(name, v)
    \/ nops < MaxPairOps /\ \E name \in PairNames : Named(name)

SpecPairs == InitPairs /\ [][NextPairs]_vars

\* A host that sends commands that fault (an unknown opcode 0x3F, 0xA8 0x0A,
\* 0xD9 0x00, 0x20 0x03) and goes on with the valid command 0xA7 and data.
MaxFaultOps == 3

FaultBytes == {0, 3, 10, 32, 63, 167, 168, 217}

NextFault ==
    \/ nops < MaxFaultOps /\ \E byte \in FaultBytes : PushCommand(byte)
    \/ nops < MaxFaultOps /\ \E byte \in DataBytes : PushData(byte)

SpecFault == Init /\ [][NextFault]_vars

\* the registers keep the ranges their loads give them
TypeOK ==
    /\ display.col \in Byte
    /\ display.page \in 0..7
    /\ display.page_start \in 0..7 /\ display.page_end \in 0..7
    /\ display.column_start \in 0..127 /\ display.column_end \in 0..127
    /\ display.page_mode_column_start \in Byte
    /\ display.addressing_mode \in AddressingMode
    /\ display.vram \subseteq 0..(DISPLAY_PIXELS - 1)

----------------------------------------------------------------------------
(* Steps, as the claims speak of them                                      *)

\* the step is a call of push_data / push_command (every call counts in nops)
IsPushData == nops' = nops + 1 /\ call'.op = "push_data"
IsPushCommand == nops' = nops + 1 /\ call'.op = "push_command"

\* the registers of s other than the cursor, the command buffer and the VRAM
Configuration(s) ==
    [ alternative_com |-> s.alternative_com, com_remap |-> s.com_remap,
      ignore_ram |-> s.ignore_ram, inverted |-> s.inverted,
      segment_remap |-> s.segment_remap, sleeping |-> s.sleeping,
      addressing_mode |-> s.addressing_mode,
      column_end |-> s.column_end, column_start |-> s.column_start,
      contrast |-> s.contrast, display_start_line |-> s.display_start_line,
      divide_ratio |-> s.divide_ratio, multiplex_ratio |-> s.multiplex_ratio,
      oscillator_frequency |-> s.oscillator_frequency,
      page_end |-> s.page_end,
      page_mode_column_start |-> s.page_mode_column_start,
      page_mode_page_start |-> s.page_mode_page_start,
      page_start |-> s.page_start,
      precharge_period |-> s.precharge_period,
      vcomh_deselect_level |-> s.vcomh_deselect_level,
      vertical_shift |-> s.vertical_shift ]

----------------------------------------------------------------------------
(* C1 *)

\* C1: immediately after every push_data the cursor lies inside the programmed
\* window: in Horizontal and Vertical mode column_start <= col <= column_end and
\* page_start <= page <= page_end, in Page mode col <= 127 and the page is the
\* one before the write.
C1_CursorInsideWindow ==
    [][IsPushData =>
        IF display'.addressing_mode = "Page"
        THEN display'.col <= 127 /\ display'.page = display.page
        ELSE /\ display'.column_start <= display'.col
             /\ display'.col <= display'.column_end
             /\ display'.page_start <= display'.page
             /\ display'.page <= display'.page_end]_vars

----------------------------------------------------------------------------
(* C2 *)

\* the command lengths as the specification's table gives them
TableLength(first) ==
    IF first \in {129, 32, 168, 211, 218, 213, 217, 219} THEN 2
    ELSE IF first \in {33, 34, 163} THEN 3
    ELSE IF first \in {41, 42} THEN 6
    ELSE IF first \in {38, 39} THEN 7
    ELSE 1

\* C2: push_command accumulates bytes framed by the first byte: a call dispatches
\* exactly when the buffered bytes (the new one included) number the table's
\* length for the buffer's first byte, the opcode dispatched is that first byte
\* (a parameter byte is never taken for an opcode: a call that does not complete
\* a command changes the buffer only), and the buffer is empty right after each
\* dispatch.
C2_FramedByFirstByte ==
    [][IsPushCommand =>
        LET buffered == Append(display.command_buffer, from_element(call'.byte))
            first == load(buffered[1], 0, 8)
        IN /\ (dispatched' # NotDispatched) <=> (Len(buffered) = TableLength(first))
           /\ dispatched' # NotDispatched =>
                /\ dispatched' = first
                /\ display'.command_buffer = << >>
           /\ dispatched' = NotDispatched =>
                display' = [display EXCEPT !.command_buffer = buffered]]_vars

----------------------------------------------------------------------------
(* C3 *)

\* the VRAM index push_data is to write bit i to, with the cursor of s
BitIndex(s, i) == ((s.page + 1) * 8 - 1 - i) * 128 + s.col

\* C3: push_data(b) with the cursor at (col, page) sets, for each bit i in 0..7,
\* the VRAM bit at index ((page+1)*8 - 1 - i)*128 + col to bit i of b, and leaves
\* every other VRAM bit and every configuration register except the cursor
\* unchanged.
C3_PushDataWritesColumn ==
    [][IsPushData =>
        LET written == {BitIndex(display, i) : i \in 0..7}
        IN /\ \A i \in 0..7 :
                (BitIndex(display, i) \in display'.vram) <=> from_element(call'.byte)[i]
           /\ display'.vram \ written = display.vram \ written
           /\ Configuration(display') = Configuration(display)
           /\ display'.command_buffer = display.command_buffer]_vars

----------------------------------------------------------------------------
(* C4 *)

Pixels == 0..(DISPLAY_PIXELS - 1)

\* C4: in every display state iter() yields 8192 pixels and pixel k (row-major,
\* k = y*128 + x) is false if sleeping; otherwise true if ignore_ram; otherwise
\* the negation of VRAM bit k if inverted; otherwise VRAM bit k.
C4_ReadoutPriority ==
    /\ DOMAIN iter(display) = Pixels
    /\ display.sleeping => \A k \in Pixels : ~iter(display)[k]
    /\ (~display.sleeping /\ display.ignore_ram) => \A k \in Pixels : iter(display)[k]
    /\ (~display.sleeping /\ ~display.ignore_ram /\ display.inverted) =>
            \A k \in Pixels : iter(display)[k] <=> k \notin display.vram
    /\ (~display.sleeping /\ ~display.ignore_ram /\ ~display.inverted) =>
            \A k \in Pixels : iter(display)[k] <=> k \in display.vram

\* ignore_ram and inverted are both set on a display that is on and holds a
\* pattern: the readout is all true, not the negated pattern
C4_Witness ==
    /\ ~display.sleeping /\ display.ignore_ram /\ display.inverted
    /\ display.vram # {}
    /\ \A k \in Pixels : iter(display)[k]

----------------------------------------------------------------------------
(* C5 *)

\* C5: in Page mode every push_data increments col and wraps it to
\* page_mode_column_start when it reaches 128, and never changes page; so 128
\* consecutive push_data calls that start from col = 0 bring col back to
\* page_mode_column_start with the page they started on.
C5_PageModeWrap ==
    /\ [][(IsPushData /\ display.addressing_mode = "Page") =>
            /\ display'.col = IF display.col + 1 >= 128
                              THEN display.page_mode_column_start
                              ELSE display.col + 1
            /\ display'.page = display.page]_vars
    /\ []((display.addressing_mode = "Page" /\ run_start.col = 0 /\ run = 128) =>
            /\ display.col = display.page_mode_column_start
            /\ display.page = run_start.page)

----------------------------------------------------------------------------
(* C6, C7 *)

\* the number of cells of the programmed window, as the claims compute it
WindowCells(s) ==
    (s.column_end - s.column_start + 1) * (s.page_end - s.page_start + 1)

AtWindowStart(s, c) == c.col = s.column_start /\ c.page = s.page_start

Cursor(s) == [col |-> s.col, page |-> s.page]

\* C6: in Horizontal mode each push_data increments col; when col exceeds
\* column_end it becomes column_start and page increments; when page exceeds
\* page_end it becomes page_start.  So a run of data that starts at
\* (column_start, page_start) visits the window page by page and is back at the
\* start after exactly (column_end-column_start+1)*(page_end-page_start+1) bytes
\* (and their multiples), not before.
C6_HorizontalTraversal ==
    /\ [][(IsPushData /\ display.addressing_mode = "Horizontal") =>
            IF display.col + 1 > display.column_end
            THEN /\ display'.col = display.column_start
                 /\ display'.page = IF display.page + 1 > display.page_end
                                    THEN display.page_start
                                    ELSE display.page + 1
            ELSE /\ display'.col = display.col + 1
                 /\ display'.page = display.page]_vars
    /\ []((display.addressing_mode = "Horizontal" /\ AtWindowStart(display, run_start)) =>
            /\ AtWindowStart(display, Cursor(display))
                  <=> \E k \in 0..run : run = k * WindowCells(display)
            /\ \A n \in 0..(run - 1) :
                  n < WindowCells(display) =>
                     LET w == display.column_end - display.column_start + 1
                     IN \A i \in 0..7 :
                           BitIndex([col |-> display.column_start + (n % w),
                                     page |-> display.page_start + (n \div w)], i)
                             \in display.vram)

\* C7: in Vertical mode each push_data increments page; when page exceeds
\* page_end it becomes page_start and col increments; when col exceeds
\* column_end it becomes column_start.  So a run of data that starts at
\* (column_start, page_start) visits the window column by column and is back at
\* the start after exactly (column_end-column_start+1)*(page_end-page_start+1)
\* bytes (and their multiples), not before.
C7_VerticalTraversal ==
    /\ [][(IsPushData /\ display.addressing_mode = "Vertical") =>
            IF display.page + 1 > display.page_end
            THEN /\ display'.page = display.page_start
                 /\ display'.col = IF display.col + 1 > display.column_end
                                   THEN display.column_start
                                   ELSE display.col + 1
            ELSE /\ display'.page = display.page + 1
                 /\ display'.col = display.col]_vars
    /\ []((display.addressing_mode = "Vertical" /\ AtWindowStart(display, run_start)) =>
            /\ AtWindowStart(display, Cursor(display))
                  <=> \E k \in 0..run : run = k * WindowCells(display)
            /\ \A n \in 0..(run - 1) :
                  n < WindowCells(display) =>
                     LET h == display.page_end - display.page_start + 1
                     IN \A i \in 0..7 :
                           BitIndex([col |-> display.column_start + (n \div h),
                                     page |-> display.page_start + (n % h)], i)
                             \in display.vram)

----------------------------------------------------------------------------
(* C8 *)

\* the readout after the host pushes the command bytes of seq to s, in order
RECURSIVE AfterCommands(_, _)
AfterCommands(s, seq) ==
    IF seq = << >> THEN s
    ELSE AfterCommands(push_command(s, Head(seq)).self, Tail(seq))

AllFalse(s) == \A k \in Pixels : ~iter(s)[k]

RawReadout(s) == \A k \in Pixels : iter(s)[k] <=> k \in s.vram

\* the display takes the next command byte for an opcode
AtOpcode(s) == s.command_buffer = << >>

\* C8 as stated: display-mode commands never alter VRAM and are undone by their
\* counterpart: from any state, after 0xAE the readout is all false and after a
\* following 0xAF it equals the readout before 0xAE; after 0xA7 then 0xA6 the
\* readout equals raw VRAM.
C8_AsStated ==
    AtOpcode(display) =>
        /\ \A c \in ModeBytes : push_command(display, c).self.vram = display.vram
        /\ AllFalse(AfterCommands(display, <<174>>))
        /\ iter(AfterCommands(display, <<174, 175>>)) = iter(display)
        /\ RawReadout(AfterCommands(display, <<167, 166>>))

\* C8 amended: the same, where 0xAE/0xAF give back the readout of a display that
\* was on (not sleeping) before 0xAE, and 0xA7/0xA6 give the raw VRAM on a
\* display that is neither sleeping nor set to ignore its RAM.
C8_ModeCommandsUndone ==
    AtOpcode(display) =>
        /\ \A c \in ModeBytes : push_command(display, c).self.vram = display.vram
        /\ AllFalse(AfterCommands(display, <<174>>))
        /\ AfterCommands(display, <<174, 175>>).vram = display.vram
        /\ AfterCommands(display, <<167, 166>>).vram = display.vram
        /\ ~display.sleeping =>
              iter(AfterCommands(display, <<174, 175>>)) = iter(display)
        /\ (~display.sleeping /\ ~display.ignore_ram) =>
              RawReadout(AfterCommands(display, <<167, 166>>))

\* 0xAE then 0xAF have just been dispatched on a display that holds a pattern,
\* and the readout shows the pattern again
C8_Witness ==
    /\ prev_dispatched = 174 /\ dispatched = 175
    /\ display.vram # {}
    /\ AtOpcode(display)
    /\ RawReadout(display)

----------------------------------------------------------------------------
(* C9 *)

\* the step pushes the parameter byte of the two-byte command `opcode`
IsParameterOf(opcode) ==
    IsPushCommand /\ display.command_buffer = <<from_element(opcode)>>

\* C9 as stated: 0xA8 with a parameter p that does not encode a ratio in 16..64
\* (p + 1 outside 16..64) is a fault and leaves multiplex_ratio alone; with a
\* valid parameter multiplex_ratio becomes p + 1; multiplex_ratio is always in
\* 16..64.
C9_AsStated ==
    /\ [](display.multiplex_ratio \in 16..64)
    /\ [][IsParameterOf(168) =>
            LET p == call'.byte
            IN IF p + 1 \in 16..64
               THEN panic' = NoPanic /\ display'.multiplex_ratio = p + 1
               ELSE /\ panic' # NoPanic
                    /\ display'.multiplex_ratio = display.multiplex_ratio]_vars

\* C9 amended: the ratio is encoded by the low six bits a = p mod 64 of the
\* parameter byte: with a + 1 outside 16..64 the command is a fault and leaves
\* multiplex_ratio alone, otherwise multiplex_ratio becomes a + 1;
\* multiplex_ratio is always in 16..64.
C9_MultiplexRatio ==
    /\ [](display.multiplex_ratio \in 16..64)
    /\ [][IsParameterOf(168) =>
            LET a == call'.byte % 64
            IN IF a + 1 \in 16..64
               THEN panic' = NoPanic /\ display'.multiplex_ratio = a + 1
               ELSE /\ panic' # NoPanic
                    /\ display'.multiplex_ratio = display.multiplex_ratio]_vars

\* 0xA8 was dispatched with the parameter 0x4F and set the ratio 16
C9_Witness ==
    /\ dispatched = 168 /\ call = [op |-> "push_command", byte |-> 79]
    /\ panic = NoPanic /\ display.multiplex_ratio = 16

----------------------------------------------------------------------------
(* C10 *)

ModeOf(m) ==
    CASE m = 0 -> "Horizontal" [] m = 1 -> "Vertical" [] m = 2 -> "Page"

\* C10 as stated: 0x20 with parameter 0, 1 or 2 selects Horizontal, Vertical or
\* Page addressing; with any other parameter byte it is a fault and the
\* addressing mode is left unchanged.
C10_AsStated ==
    [][IsParameterOf(32) =>
        LET p == call'.byte
        IN IF p \in {0, 1, 2}
           THEN panic' = NoPanic /\ display'.addressing_mode = ModeOf(p)
           ELSE /\ panic' # NoPanic
                /\ display'.addressing_mode = display.addressing_mode]_vars

\* C10 amended: the mode is selected by the low two bits m = p mod 4 of the
\* parameter byte: 0, 1, 2 select Horizontal, Vertical, Page; with m = 3 the
\* command is a fault and the addressing mode is left unchanged.
C10_AddressingMode ==
    [][IsParameterOf(32) =>
        LET m == call'.byte % 4
        IN IF m \in {0, 1, 2}
           THEN panic' = NoPanic /\ display'.addressing_mode = ModeOf(m)
           ELSE /\ panic' # NoPanic
                /\ display'.addressing_mode = display.addressing_mode]_vars

\* 0x20 was dispatched with the parameter 0x01 after the mode had been changed,
\* and with it the display addresses vertically
C10_Witness ==
    /\ dispatched = 32 /\ call = [op |-> "push_command", byte |-> 1]
    /\ panic = NoPanic /\ display.addressing_mode = "Vertical"

----------------------------------------------------------------------------
(* C11 *)

\* C11: a freshly constructed display, and the display of a freshly constructed
\* Arduboy, reads out exactly 128*64 = 8192 pixels and every one is false.
C11_FreshReadout ==
    call.op = "new" =>
        /\ DOMAIN iter(Default) = 0..8191
        /\ Cardinality(DOMAIN display_iter([display |-> display])) = 128 * 64
        /\ \A k \in DOMAIN iter(Default) : ~iter(Default)[k]
        /\ \A k \in DOMAIN display_iter([display |-> display]) :
              ~display_iter([display |-> display])[k]

\* the Arduboy has just been constructed
C11_Witness ==
    /\ call.op = "new"
    /\ display = Default
    /\ ~test_inited /\ button_state = {}

----------------------------------------------------------------------------
(* C12 *)

\* C12: on a fresh device with no program loaded every frame returns success
\* and the readout afterwards is still 8192 false pixels.
C12_BlankFrame ==
    call.op = "execute_for_a_frame" =>
        /\ panic = NoPanic /\ ret = OkUnit
        /\ Cardinality(DOMAIN display_iter([display |-> display])) = 8192
        /\ AllFalse(display)

----------------------------------------------------------------------------
(* The opcodes, as the claims speak of them                                *)

\* the step executes the opcode `op`
IsOp(op) == nops' = nops + 1 /\ call'.op = op

\* the operands of the opcode the step executes
Rd == call'.args[1]
Rr == call'.args[2]

\* a byte as a two's-complement number
Signed(x) == IF x >= 128 THEN x - 256 ELSE x

Xor(a, b) == a # b

\* N, Z and S of the status register st for the 8-bit result
ResultFlags(st, result) ==
    /\ st.n = (result >= 128)
    /\ st.z = (result = 0)
    /\ st.s = Xor(st.n, st.v)

----------------------------------------------------------------------------
(* C13 *)

\* C13: ADC Rd,Rr makes Rd = (Rd+Rr+C) mod 256 with C the carry out of bit 7,
\* H the carry out of bit 3, V the two's-complement overflow of the operands
\* before the operation, N = result bit 7, Z = (result = 0), S = N xor V; PC
\* advances by 1 and 1 cycle is returned.
C13_Adc ==
    [][IsOp("do_adc") =>
        LET d == cpu.regs[Rd]
            r == cpu.regs[Rr]
            c == as_u8(cpu.status.c)
            result == (d + r + c) % 256
        IN /\ panic' = NoPanic
           /\ cpu'.regs[Rd] = result
           /\ cpu'.status.c = (d + r + c > 255)
           /\ cpu'.status.h = ((d % 16) + (r % 16) + c > 15)
           /\ cpu'.status.v = (Signed(d) + Signed(r) + c \notin -128..127)
           /\ ResultFlags(cpu'.status, result)
           /\ cpu'.pc = cpu.pc + 1
           /\ ret' = 1]_vars

\* 0xFF + 0x01 with C = 0 has given 0x00 with C=1, Z=1, H=1, N=0, V=0, S=0
C13_Witness ==
    /\ call.op = "do_adc" /\ call.args = <<24, 25>>
    /\ cpu.regs[24] = 0 /\ cpu.regs[25] = 1
    /\ cpu.status.c /\ cpu.status.z /\ cpu.status.h
    /\ ~cpu.status.n /\ ~cpu.status.v /\ ~cpu.status.s

----------------------------------------------------------------------------
(* C14 *)

\* C14: ADD Rd,Rr (Rd and Rr may be the same register) makes Rd = (Rd+Rr) mod
\* 256, with H and V computed from the operands before the operation and the
\* result, C the carry out of bit 7, N = result bit 7, Z = (result = 0) and
\* S = N xor V.
C14_Add ==
    [][IsOp("do_add") =>
        LET d == cpu.regs[Rd]
            r == cpu.regs[Rr]
            result == (d + r) % 256
        IN /\ panic' = NoPanic
           /\ cpu'.regs[Rd] = result
           /\ cpu'.status.c = (d + r > 255)
           /\ cpu'.status.h = ((d % 16) + (r % 16) > 15)
           /\ cpu'.status.v = (Signed(d) + Signed(r) \notin -128..127)
           /\ ResultFlags(cpu'.status, result)]_vars

----------------------------------------------------------------------------
(* C15 *)

FlagOps ==
    {"do_adc", "do_add", "do_adiw", "do_and", "do_andi", "do_asr", "do_com",
     "do_cp", "do_cpc", "do_cpi"}

\* C15: after any one of ADC, ADD, ADIW, AND, ANDI, ASR, COM, CP, CPC, CPI,
\* from any prior flags, S = N xor V.
C15_SignFlag ==
    [][(\E op \in FlagOps : IsOp(op)) =>
        cpu'.status.s = Xor(cpu'.status.n, cpu'.status.v)]_vars

\* the same of every one of these opcodes but ASR
SignFlagButAsr ==
    [][(\E op \in FlagOps \ {"do_asr"} : IsOp(op)) =>
        cpu'.status.s = Xor(cpu'.status.n, cpu'.status.v)]_vars

----------------------------------------------------------------------------
(* C16 *)

\* C16: ADIW Rd,K adds K to the little-endian pair Rd+1:Rd modulo 2^16 with
\* N = result bit 15, V = (bit 15 clear before and set after), C = carry out of
\* bit 15, Z = (result = 0), S = N xor V, and H, T, I unchanged.
C16_Adiw ==
    [][IsOp("do_adiw") =>
        LET d == cpu.regs[Rd] + 256 * cpu.regs[Rd + 1]
            k == call'.args[2]
            result == (d + k) % 65536
        IN /\ panic' = NoPanic
           /\ cpu'.regs[Rd] = result % 256
           /\ cpu'.regs[Rd + 1] = result \div 256
           /\ cpu'.status.n = (result >= 32768)
           /\ cpu'.status.v = (d < 32768 /\ result >= 32768)
           /\ cpu'.status.c = (d + k > 65535)
           /\ cpu'.status.z = (result = 0)
           /\ cpu'.status.s = Xor(cpu'.status.n, cpu'.status.v)
           /\ cpu'.status.h = cpu.status.h
           /\ cpu'.status.t = cpu.status.t
           /\ cpu'.status.i = cpu.status.i]_vars

\* 0x7FFF + 1 has given 0x8000 with N=1, V=1, S=0, C=0, Z=0
C16_Witness ==
    /\ call.op = "do_adiw" /\ call.args = <<24, 1>>
    /\ cpu.regs[24] = 0 /\ cpu.regs[25] = 128
    /\ cpu.status.n /\ cpu.status.v
    /\ ~cpu.status.s /\ ~cpu.status.c /\ ~cpu.status.z

----------------------------------------------------------------------------
(* C17 *)

\* C17: each CPC leaves Z as it was when its result Rd-Rr-C is 0 and clears Z
\* when it is not, so in a compare of several bytes (a CP, then CPCs) a Z of 0
\* stays 0, and Z is 1 only if every byte so far compared equal.
C17_ZeroAccumulates ==
    /\ [][IsOp("do_cpc") =>
            LET result == (cpu.regs[Rd] - cpu.regs[Rr] - as_u8(cpu.status.c) + 512) % 256
            IN /\ result = 0 => cpu'.status.z = cpu.status.z
               /\ result # 0 => ~cpu'.status.z
               /\ ~cpu.status.z => ~cpu'.status.z]_vars
    /\ [](chain.len > 0 /\ cpu.status.z => chain.equal)

\* a compare of three bytes that were all equal has ended with Z = 1
C17_Witness ==
    /\ call.op = "do_cpc"
    /\ chain.len = 3 /\ chain.equal
    /\ cpu.status.z

----------------------------------------------------------------------------
(* C18 *)

\* C18: BRBS s,k with flag s set, and BRBC s,k with flag s clear, set PC to
\* PC + 1 + k modulo 2^16 and cost 2 cycles; otherwise they set PC to PC + 1
\* and cost 1 cycle; they change nothing else and do not fault.
C18_Branch ==
    [][(IsOp("do_brbs") \/ IsOp("do_brbc")) =>
        LET k == call'.args[1]
            flag == index(cpu.status, call'.args[2])
            taken == IF call'.op = "do_brbs" THEN flag ELSE ~flag
        IN /\ panic' = NoPanic
           /\ taken => cpu'.pc = (cpu.pc + 1 + k + 65536) % 65536 /\ ret' = 2
           /\ ~taken => cpu'.pc = (cpu.pc + 1) % 65536 /\ ret' = 1
           /\ cpu' = [cpu EXCEPT !.pc = cpu'.pc]]_vars

\* the same where the build does not check overflow
BranchWhereOverflowWraps ==
    [][(~overflow_checks /\ (IsOp("do_brbs") \/ IsOp("do_brbc"))) =>
        LET k == call'.args[1]
            flag == index(cpu.status, call'.args[2])
            taken == IF call'.op = "do_brbs" THEN flag ELSE ~flag
        IN /\ panic' = NoPanic
           /\ taken => cpu'.pc = (cpu.pc + 1 + k + 65536) % 65536 /\ ret' = 2
           /\ ~taken => cpu'.pc = (cpu.pc + 1) % 65536 /\ ret' = 1
           /\ cpu' = [cpu EXCEPT !.pc = cpu'.pc]]_vars

----------------------------------------------------------------------------
(* C19 *)

\* the byte at the data address addr of the SRAM range
DataByte(s, addr) == sram_at(s, addr - SRAM_START)

\* C19: CALL k with PC = p and SP = s, a data address in SRAM, stores the high
\* byte of p+2 at data address s and the low byte at s-1, sets SP to s-2 and
\* PC to k, changes nothing else and does not fault.
C19_Call ==
    [][(IsOp("do_call") /\ cpu.sp \in SRAM_START..SRAM_END) =>
        LET return == cpu.pc + 2
        IN /\ panic' = NoPanic
           /\ DataByte(cpu', cpu.sp) = return \div 256
           /\ DataByte(cpu', cpu.sp - 1) = return % 256
           /\ cpu'.sp = cpu.sp - 2
           /\ cpu'.pc = call'.args[1]
           /\ cpu'.regs = cpu.regs
           /\ cpu'.status = cpu.status
           /\ \A a \in (SRAM_START..SRAM_END) \ {cpu.sp, cpu.sp - 1} :
                 DataByte(cpu', a) = DataByte(cpu, a)]_vars

----------------------------------------------------------------------------
(* C20 *)

\* C20: loads and stores at every data address in 0x0000..0x0AFF do not fault:
\* 0x0000-0x001F are the general registers, I/O 0x0020-0x005F and extended I/O
\* 0x0060-0x00FF read as 0 and ignore writes, 0x0100-0x0AFF are the SRAM bytes
\* addr-0x0100; so CBI A,b completes in 2 cycles with PC+1 for every A.
C20_DataSpace ==
    /\ [][IsOp("data_load") =>
            LET addr == call'.args[1]
            IN /\ panic' = NoPanic
               /\ addr \in REGISTER_START..REGISTER_END => ret' = cpu.regs[addr]
               /\ addr \in IO_REGISTER_START..EXT_IO_REGISTER_END => ret' = 0
               /\ addr \in SRAM_START..SRAM_END => ret' = sram_at(cpu, addr - 256)
               /\ cpu' = cpu]_vars
    /\ [][IsOp("data_store") =>
            LET addr == call'.args[1]
                value == call'.args[2]
            IN /\ panic' = NoPanic
               /\ addr \in REGISTER_START..REGISTER_END =>
                     cpu' = [cpu EXCEPT !.regs[addr] = value]
               /\ addr \in IO_REGISTER_START..EXT_IO_REGISTER_END => cpu' = cpu
               /\ addr \in SRAM_START..SRAM_END =>
                     /\ sram_at(cpu', addr - 256) = value
                     /\ cpu'.regs = cpu.regs]_vars
    /\ [][IsOp("do_cbi") =>
            /\ panic' = NoPanic
            /\ ret' = 2
            /\ cpu'.pc = cpu.pc + 1]_vars

----------------------------------------------------------------------------
(* C21 *)

\* x with bit s set to value
WithBit(x, s, value) ==
    x - (IF Bit(x, s) THEN Pow2(s) ELSE 0) + (IF value THEN Pow2(s) ELSE 0)

\* C21: the packed and indexed views of SREG agree: to_u8(from_u8(b)) = b for
\* every byte b, the flag at index s is bit s of the packed byte, and BSET s /
\* BCLR s set / clear exactly bit s of the packed byte.
C21_StatusViews ==
    /\ [](/\ \A b \in Byte : to_u8(from_u8(b)) = b
          /\ from_u8(to_u8(cpu.status)) = cpu.status
          /\ \A s \in 0..7 : index(cpu.status, s) = Bit(to_u8(cpu.status), s)
          /\ \A s \in 0..7, value \in BOOLEAN :
                to_u8(index_mut(cpu.status, s, value))
                   = WithBit(to_u8(cpu.status), s, value))
    /\ [][IsOp("do_bset") =>
            to_u8(cpu'.status) = WithBit(to_u8(cpu.status), call'.args[1], TRUE)]_vars
    /\ [][IsOp("do_bclr") =>
            to_u8(cpu'.status) = WithBit(to_u8(cpu.status), call'.args[1], FALSE)]_vars

\* BCLR 3 has cleared V in a status register whose flags were all set
C21_Witness ==
    /\ call.op = "do_bclr" /\ call.args = <<3>>
    /\ to_u8(cpu.status) = 247
    /\ ~cpu.status.v

----------------------------------------------------------------------------
(* C22 *)

\* C22: register pairs are little-endian overlays of the register file: after
\* set_pair(i, v), pair(i) = v, regs[i] = v mod 256, regs[i+1] = v div 256 and
\* every other register is unchanged; W, X, Y, Z are the pairs at 24, 26, 28
\* and 30.
C22_RegisterPairs ==
    /\ [][IsOp("set_pair") =>
            LET i == call'.args[1]
                v == call'.args[2]
            IN /\ cpu'.regs[i] = v % 256
               /\ cpu'.regs[i + 1] = v \div 256
               /\ \A r \in 0..31 : r \notin {i, i + 1} => cpu'.regs[r] = cpu.regs[r]]_vars
    /\ [][(IsOp("pair") /\ call.op = "set_pair" /\ call.args[1] = call'.args[1]) =>
            ret' = call.args[2]]_vars
    /\ [][IsOp("pair") =>
            ret' = cpu.regs[call'.args[1]] + 256 * cpu.regs[call'.args[1] + 1]]_vars
    /\ [][(\E name \in PairNames : IsOp("set_" \o name)) =>
            LET i == CASE call'.op = "set_w" -> 24 [] call'.op = "set_x" -> 26
                       [] call'.op = "set_y" -> 28 [] call'.op = "set_z" -> 30
                v == call'.args[1]
            IN /\ cpu'.regs[i] = v % 256
               /\ cpu'.regs[i + 1] = v \div 256
               /\ \A r \in 0..31 : r \notin {i, i + 1} => cpu'.regs[r] = cpu.regs[r]]_vars
    /\ [][(\E name \in PairNames : IsOp(name)) =>
            LET i == CASE call'.op = "w" -> 24 [] call'.op = "x" -> 26
                       [] call'.op = "y" -> 28 [] call'.op = "z" -> 30
            IN ret' = cpu.regs[i] + 256 * cpu.regs[i + 1]]_vars

\* pair(30) has just read back the 0x1234 that set_pair(30, 0x1234) wrote
C22_Witness ==
    /\ call.op = "pair" /\ call.args = <<30>>
    /\ ret = 4660
    /\ cpu.regs[30] = 52 /\ cpu.regs[31] = 18

----------------------------------------------------------------------------
(* C23 *)

\* C23: AND Rd,Rr and ANDI Rd,K write the bitwise AND of Rd and the operand
\* back into Rd, set V = 0, N = result bit 7, Z = (result = 0), S = N xor V,
\* leave H, C, T and I untouched, advance PC by 1 and cost 1 cycle.
C23_AndWritesBack ==
    [][(IsOp("do_and") \/ IsOp("do_andi")) =>
        LET operand == IF call'.op = "do_and" THEN cpu.regs[Rr] ELSE call'.args[2]
            result == BitAnd(cpu.regs[Rd], operand)
        IN /\ panic' = NoPanic
           /\ cpu'.regs[Rd] = result
           /\ ~cpu'.status.v
           /\ ResultFlags(cpu'.status, result)
           /\ cpu'.status.h = cpu.status.h /\ cpu'.status.c = cpu.status.c
           /\ cpu'.status.t = cpu.status.t /\ cpu'.status.i = cpu.status.i
           /\ cpu'.pc = cpu.pc + 1
           /\ ret' = 1]_vars

\* the same of ANDI alone
AndiWritesBack ==
    [][IsOp("do_andi") =>
        LET result == BitAnd(cpu.regs[Rd], call'.args[2])
        IN /\ panic' = NoPanic
           /\ cpu'.regs[Rd] = result
           /\ ~cpu'.status.v
           /\ ResultFlags(cpu'.status, result)
           /\ cpu'.status.h = cpu.status.h /\ cpu'.status.c = cpu.status.c
           /\ cpu'.status.t = cpu.status.t /\ cpu'.status.i = cpu.status.i
           /\ cpu'.pc = cpu.pc + 1
           /\ ret' = 1]_vars

----------------------------------------------------------------------------
(* C24 *)

\* C24: ASR Rd makes Rd = (Rd >> 1) | (Rd & 0x80), with C = bit 0 of Rd before
\* the shift, N = result bit 7, V = N xor C, Z = (result = 0) and S = N xor V,
\* from the new N, C and V.
C24_Asr ==
    [][IsOp("do_asr") =>
        LET d == cpu.regs[Rd]
            result == (d \div 2) + (IF d >= 128 THEN 128 ELSE 0)
        IN /\ cpu'.regs[Rd] = result
           /\ cpu'.status.c = (d % 2 = 1)
           /\ cpu'.status.v = Xor(cpu'.status.n, cpu'.status.c)
           /\ ResultFlags(cpu'.status, result)]_vars

----------------------------------------------------------------------------
(* C25 *)

\* C25: a display command that faults changes no configuration register and
\* no VRAM bit and does not stay in the command buffer, so that a one-byte
\* command pushed next is dispatched.
C25_FaultLeavesNoTrace ==
    /\ [][(IsPushCommand /\ panic' # NoPanic) =>
            /\ Configuration(display') = Configuration(display)
            /\ display'.vram = display.vram
            /\ Cursor(display') = Cursor(display)
            /\ display'.command_buffer = << >>]_vars
    /\ [][(IsPushCommand /\ call.op = "push_command" /\ panic # NoPanic
            /\ TableLength(call'.byte) = 1) =>
            dispatched' = call'.byte]_vars

\* the same without the command buffer: the registers, the VRAM and the cursor
FaultChangesNoRegister ==
    [][(IsPushCommand /\ panic' # NoPanic) =>
        /\ Configuration(display') = Configuration(display)
        /\ display'.vram = display.vram
        /\ Cursor(display') = Cursor(display)]_vars

----------------------------------------------------------------------------
(* C26 *)

\* C26: CP Rd,Rr and CPI Rd,K leave every general register unchanged and set
\* the flags of Rd - operand: C = (operand > Rd), Z = (Rd = operand), N = bit 7
\* of the difference, H = borrow out of bit 3, V = two's-complement overflow,
\* S = N xor V.
C26_Compare ==
    [][(IsOp("do_cp") \/ IsOp("do_cpi")) =>
        LET d == cpu.regs[Rd]
            operand == IF call'.op = "do_cp" THEN cpu.regs[Rr] ELSE call'.args[2]
            difference == (d - operand + 256) % 256
        IN /\ cpu'.regs = cpu.regs
           /\ cpu'.status.c = (operand > d)
           /\ cpu'.status.z = (d = operand)
           /\ cpu'.status.n = (difference >= 128)
           /\ cpu'.status.h = ((operand % 16) > (d % 16))
           /\ cpu'.status.v = (Signed(d) - Signed(operand) \notin -128..127)
           /\ cpu'.status.s = Xor(cpu'.status.n, cpu'.status.v)]_vars

\* comparing 0x00 with 0x01 has given C=1, N=1, H=1, V=0, S=1, Z=0
C26_Witness ==
    /\ call.op = "do_cp" /\ call.args = <<24, 25>>
    /\ cpu.regs[24] = 0 /\ cpu.regs[25] = 1
    /\ cpu.status.c /\ cpu.status.n /\ cpu.status.h
    /\ ~cpu.status.v /\ cpu.status.s /\ ~cpu.status.z

----------------------------------------------------------------------------
(* C27 *)

\* a command has faulted: its bytes are still in the buffer, which is as long
\* as the command or longer
CommandFaulted(s) ==
    s.command_buffer # << >> /\ Len(s.command_buffer) >= command_length(s)

\* C27: where no command has faulted, push_data does not fault: before the
\* write col <= 127 and page <= 7, the bits it changes lie in column col of
\* page `page`, and the increments of col and page do not overflow.
C27_PushDataNeverFaults ==
    [][(IsPushData /\ ~CommandFaulted(display)) =>
        /\ display.col <= 127 /\ display.page <= 7
        /\ panic' = NoPanic
        /\ \A k \in (display'.vram \ display.vram) \cup (display.vram \ display'.vram) :
              \E j \in 0..7 : k = (display.page * 8 + j) * 128 + display.col]_vars

----------------------------------------------------------------------------
(* What holds of C5, C6 and C7 where push_data does not fault               *)

\* Under SpecPageRun: 128 data bytes from col = 0 in Page mode bring col to
\* page_mode_column_start on the same page, also when that start is 0x80.
PageRunReturns ==
    (display.addressing_mode = "Page" /\ run_start.col = 0 /\ run = 128) =>
        /\ display.col = display.page_mode_column_start
        /\ display.page = run_start.page

WellFormedWindow(s) ==
    s.column_start <= s.column_end /\ s.page_start <= s.page_end

\* the cursor after n data bytes from the window's start, page by page
HorizontalCell(s, n) ==
    LET w == s.column_end - s.column_start + 1
        h == s.page_end - s.page_start + 1
    IN [col |-> s.column_start + (n % w), page |-> s.page_start + ((n \div w) % h)]

\* the cursor after n data bytes from the window's start, column by column
VerticalCell(s, n) ==
    LET w == s.column_end - s.column_start + 1
        h == s.page_end - s.page_start + 1
    IN [col |-> s.column_start + ((n \div h) % w), page |-> s.page_start + (n % h)]

\* Under SpecWindow: with column_start <= column_end and page_start <= page_end
\* a run of data from the window's start is at the cell the traversal order
\* gives, so back at the start exactly at the multiples of the window's cells.
WindowTraversal ==
    (WellFormedWindow(display) /\ AtWindowStart(display, run_start)) =>
        /\ display.addressing_mode = "Horizontal" =>
              Cursor(display) = HorizontalCell(display, run)
        /\ display.addressing_mode = "Vertical" =>
              Cursor(display) = VerticalCell(display, run)
        /\ display.addressing_mode # "Page" =>
              (AtWindowStart(display, Cursor(display))
                 <=> run % WindowCells(display) = 0)

\* Under SpecWindow: with column_start > column_end a Horizontal run from the
\* window's start is back at the start after page_end - page_start + 1 bytes,
\* which the product of C6 and C7 (zero or negative) does not give.
InvertedWindowRun ==
    ~( /\ display.addressing_mode = "Horizontal"
       /\ display.column_start > display.column_end
       /\ display.page_start <= display.page_end
       /\ AtWindowStart(display, run_start)
       /\ run = display.page_end - display.page_start + 1
       /\ AtWindowStart(display, Cursor(display)) )

====
